---- MODULE Spec2Model ----
(***************************************************************************)
(* A model of the lox expression pipeline: Scanner (src/src/scanner.rs),   *)
(* Parser (src/src/parser.rs), Interpreter (src/src/interpreter.rs) and    *)
(* the Display projection of Expr (src/src/ast.rs), run in the order of    *)
(* interpret() in src/src/main.rs and of the repository's tests.           *)
(*                                                                         *)
(* Text is a sequence of characters; a character is a one-element TLA+     *)
(* string, except EAcute and Euro which stand for a two-byte and a         *)
(* three-byte UTF-8 character.                                             *)
(* A panic of the Rust code (unwrap on None/Err, slicing off a character   *)
(* boundary) is the control state "panic".                                 *)
(***************************************************************************)
EXTENDS Integers, Sequences, FiniteSets

VARIABLES source, start, current, line, tokens, pc, parsed, result, text

vars == <<source, start, current, line, tokens, pc, parsed, result, text>>

\* ------------------------------------------------------------------ bounds
MaxLen == 3
MaxOps == 2

\* -------------------------------------------------------------- characters
\* U+00E9, alphabetic, encoded as two bytes in a Rust String.
EAcute == "U+00E9"
\* U+20AC, neither alphabetic nor a digit, encoded as three bytes.
Euro == "U+20AC"
NUL == "NUL"
NL == "\n"
QUOTE == "\""

Utf8Len(c) == IF c = EAcute THEN 2 ELSE IF c = Euro THEN 3 ELSE 1

Digits == {"0", "1", "2", "3", "4", "5", "6", "7", "8", "9"}
Letters == {"a", "b", "c", "d", "e", "f", "g", "h", "i", "j", "k", "l", "m",
            "n", "o", "p", "q", "r", "s", "t", "u", "v", "w", "x", "y", "z"}

is_digit(c) == c \in Digits
is_alphabetic(c) == c \in Letters \cup {EAcute}
is_alphanumeric(c) == is_alphabetic(c) \/ is_digit(c)

DigitValue(c) ==
    CASE c = "0" -> 0 [] c = "1" -> 1 [] c = "2" -> 2 [] c = "3" -> 3
      [] c = "4" -> 4 [] c = "5" -> 5 [] c = "6" -> 6 [] c = "7" -> 7
      [] c = "8" -> 8 [] c = "9" -> 9

RECURSIVE Str(_)
\* The Rust string holding the characters cs.
Str(cs) == IF cs = <<>> THEN "" ELSE Head(cs) \o Str(Tail(cs))

\* ------------------------------------------------------------ f64 numbers
\* An f64 is NaN, a signed infinity, or a signed finite magnitude n/d in
\* lowest terms (s = 1 is the sign bit, so -0.0 is [s |-> 1, n |-> 0]).
\* Rounding to 53 bits is not modelled: finite results are exact.
RECURSIVE GCD(_, _)
GCD(a, b) == IF b = 0 THEN a ELSE GCD(b, a % b)

Fin(s, n, d) ==
    LET g == GCD(n, d)
    IN  [k |-> "fin", s |-> s, n |-> n \div g, d |-> d \div g]
Inf(s) == [k |-> "inf", s |-> s, n |-> 1, d |-> 0]
NaN == [k |-> "nan", s |-> 0, n |-> 0, d |-> 0]
Zero == Fin(0, 0, 1)

IsZero(x) == x.k = "fin" /\ x.n = 0
Xor(a, b) == IF a = b THEN 0 ELSE 1

FNeg(x) == IF x.k = "nan" THEN x ELSE [x EXCEPT !.s = 1 - x.s]

\* The signed numerator of a finite x over the common denominator x.d * y.d.
Signed(x, y) == (IF x.s = 1 THEN -1 ELSE 1) * x.n * y.d

FAdd(x, y) ==
    IF x.k = "nan" \/ y.k = "nan" THEN NaN
    ELSE IF x.k = "inf" /\ y.k = "inf" THEN (IF x.s = y.s THEN x ELSE NaN)
    ELSE IF x.k = "inf" THEN x
    ELSE IF y.k = "inf" THEN y
    ELSE LET m == Signed(x, y) + Signed(y, x)
         IN  IF m = 0
             THEN Fin(IF x.s = 1 /\ y.s = 1 THEN 1 ELSE 0, 0, 1)
             ELSE IF m < 0 THEN Fin(1, -m, x.d * y.d) ELSE Fin(0, m, x.d * y.d)

FSub(x, y) == FAdd(x, FNeg(y))

FMul(x, y) ==
    IF x.k = "nan" \/ y.k = "nan" THEN NaN
    ELSE IF x.k = "inf" \/ y.k = "inf"
         THEN (IF IsZero(x) \/ IsZero(y) THEN NaN ELSE Inf(Xor(x.s, y.s)))
    ELSE Fin(Xor(x.s, y.s), x.n * y.n, x.d * y.d)

FDiv(x, y) ==
    IF x.k = "nan" \/ y.k = "nan" THEN NaN
    ELSE IF x.k = "inf" THEN (IF y.k = "inf" THEN NaN ELSE Inf(Xor(x.s, y.s)))
    ELSE IF y.k = "inf" THEN Fin(Xor(x.s, y.s), 0, 1)
    ELSE IF IsZero(y) THEN (IF IsZero(x) THEN NaN ELSE Inf(Xor(x.s, y.s)))
    ELSE Fin(Xor(x.s, y.s), x.n * y.d, x.d * y.n)

\* x < y on f64: false when either is NaN; -0.0 and 0.0 are equal.
FLt(x, y) ==
    IF x.k = "nan" \/ y.k = "nan" THEN FALSE
    ELSE IF x.k = "inf" THEN x.s = 1 /\ ~(y.k = "inf" /\ y.s = 1)
    ELSE IF y.k = "inf" THEN y.s = 0
    ELSE Signed(x, y) < Signed(y, x)

FEq(x, y) ==
    IF x.k = "nan" \/ y.k = "nan" THEN FALSE
    ELSE IF x.k = "inf" \/ y.k = "inf" THEN x.k = y.k /\ x.s = y.s
    ELSE Signed(x, y) = Signed(y, x)

FGt(x, y) == FLt(y, x)
FLe(x, y) == FLt(x, y) \/ FEq(x, y)
FGe(x, y) == FLt(y, x) \/ FEq(x, y)

RECURSIVE DigitsValue(_)
\* The value of a run of decimal digits.
DigitsValue(cs) ==
    IF cs = <<>> THEN 0
    ELSE DigitsValue(SubSeq(cs, 1, Len(cs) - 1)) * 10 + DigitValue(cs[Len(cs)])

RECURSIVE Pow10(_)
Pow10(n) == IF n = 0 THEN 1 ELSE 10 * Pow10(n - 1)

DotAt(cs) ==
    IF \E i \in 1..Len(cs) : cs[i] = "."
    THEN CHOOSE i \in 1..Len(cs) : cs[i] = "."
    ELSE 0

\* str::parse::<f64> succeeds on digits with at most one "." among them
\* (the only lexemes Scanner::number produces are of this shape).
IsF64Lexeme(cs) ==
    LET p == DotAt(cs)
    IN  /\ \E i \in 1..Len(cs) : is_digit(cs[i])
        /\ \A i \in 1..Len(cs) : is_digit(cs[i]) \/ i = p

parse_f64(cs) ==
    LET p == DotAt(cs)
    IN  IF p = 0 THEN Fin(0, DigitsValue(cs), 1)
        ELSE Fin(0,
                 DigitsValue(SubSeq(cs, 1, p - 1) \o SubSeq(cs, p + 1, Len(cs))),
                 Pow10(Len(cs) - p))

\* ------------------------------------------------------------------ tokens
NoLiteral == [kind |-> "None"]
NumberLiteral(v) == [kind |-> "Number", value |-> v]
StringLiteral(cs) == [kind |-> "String", chars |-> cs]
TrueLiteral == [kind |-> "True"]
FalseLiteral == [kind |-> "False"]
NilLiteral == [kind |-> "Nil"]

\* Token::new(token_type, lexeme, literal, line)
Token(token_type, lexeme, literal, ln) ==
    [token_type |-> token_type, lexeme |-> lexeme, literal |-> literal, line |-> ln]

\* TryFrom<&str> for TokenType: the keyword table, Identifier when absent.
KeywordType(cs) ==
    LET w == Str(cs)
    IN  CASE w = "and" -> "And"       [] w = "class" -> "Class"
          [] w = "else" -> "Else"     [] w = "false" -> "False"
          [] w = "fun" -> "Fun"       [] w = "for" -> "For"
          [] w = "if" -> "If"         [] w = "nil" -> "Nil"
          [] w = "or" -> "Or"         [] w = "print" -> "Print"
          [] w = "return" -> "Return" [] w = "super" -> "Super"
          [] w = "this" -> "This"     [] w = "true" -> "True"
          [] w = "var" -> "Var"       [] w = "while" -> "While"
          [] OTHER -> "Identifier"

\* ----------------------------------------------------------------- scanner
\* A Scanner's mutable fields; ok = FALSE once the code has panicked.
ScannerState(st, cur, ln, toks) ==
    [start |-> st, current |-> cur, line |-> ln, tokens |-> toks, ok |-> TRUE]

Panic(sc) == [sc EXCEPT !.ok = FALSE]

RECURSIVE ByteLen(_)
\* String::len(): the length in bytes.
ByteLen(cs) == IF cs = <<>> THEN 0 ELSE Utf8Len(Head(cs)) + ByteLen(Tail(cs))

source_len == ByteLen(source)

\* self.source.chars().nth(i): the i-th character (from 0), or None.
NoChar == "None"
chars_nth(i) == IF i < Len(source) THEN source[i + 1] ELSE NoChar

\* The number of characters that end at byte offset b, or -1 when b is not a
\* character boundary of source.
CharIndex(b) ==
    IF \E j \in 0..Len(source) : ByteLen(SubSeq(source, 1, j)) = b
    THEN CHOOSE j \in 0..Len(source) : ByteLen(SubSeq(source, 1, j)) = b
    ELSE -1

\* &self.source[a..b] panics unless a <= b and both are character boundaries.
CanSlice(a, b) == a <= b /\ CharIndex(a) >= 0 /\ CharIndex(b) >= 0
Slice(a, b) == SubSeq(source, CharIndex(a) + 1, CharIndex(b))

is_at_end(sc) == sc.current >= source_len

peek(sc) == IF is_at_end(sc) THEN NUL ELSE chars_nth(sc.current)

peek_next(sc) ==
    IF sc.current + 1 >= source_len THEN NUL ELSE chars_nth(sc.current + 1)

\* advance(): the character returned is chars_nth(sc.current).
advance(sc) ==
    IF chars_nth(sc.current) = NoChar THEN Panic(sc)
    ELSE [sc EXCEPT !.current = @ + 1]

\* match_second(expected): the scanner afterwards, and whether it matched.
match_second_hit(sc, expected) ==
    ~is_at_end(sc) /\ chars_nth(sc.current) = expected

match_second(sc, expected) ==
    IF is_at_end(sc) THEN sc
    ELSE IF chars_nth(sc.current) = NoChar THEN Panic(sc)
    ELSE IF chars_nth(sc.current) # expected THEN sc
    ELSE [sc EXCEPT !.current = @ + 1]

add_token(sc, token_type, literal) ==
    IF ~CanSlice(sc.start, sc.current) THEN Panic(sc)
    ELSE [sc EXCEPT !.tokens =
             Append(@, Token(token_type, Slice(sc.start, sc.current), literal, sc.line))]

RECURSIVE identifier_loop(_)
identifier_loop(sc) ==
    IF peek(sc) = NoChar THEN Panic(sc)
    ELSE IF is_alphanumeric(peek(sc)) THEN identifier_loop(advance(sc))
    ELSE sc

identifier(sc0) ==
    LET sc == identifier_loop(sc0)
    IN  IF ~sc.ok THEN sc
        ELSE IF ~CanSlice(sc.start, sc.current) THEN Panic(sc)
        ELSE add_token(sc, KeywordType(Slice(sc.start, sc.current)), NoLiteral)

RECURSIVE digits_loop(_)
digits_loop(sc) ==
    IF peek(sc) = NoChar THEN Panic(sc)
    ELSE IF is_digit(peek(sc)) THEN digits_loop(advance(sc))
    ELSE sc

number(sc0) ==
    LET sc1 == digits_loop(sc0)
        sc2 == IF peek(sc1) = NoChar THEN Panic(sc1)
               ELSE IF peek(sc1) # "." THEN sc1
               ELSE IF peek_next(sc1) = NoChar THEN Panic(sc1)
               ELSE IF is_digit(peek_next(sc1)) THEN digits_loop(advance(sc1))
               ELSE sc1
    IN  IF ~sc1.ok THEN sc1
        ELSE IF ~sc2.ok THEN sc2
        ELSE IF ~CanSlice(sc2.start, sc2.current) THEN Panic(sc2)
        ELSE IF ~IsF64Lexeme(Slice(sc2.start, sc2.current)) THEN Panic(sc2)
        ELSE add_token(sc2, "Number",
                       NumberLiteral(parse_f64(Slice(sc2.start, sc2.current))))

RECURSIVE string_loop(_)
string_loop(sc) ==
    IF peek(sc) = NoChar THEN Panic(sc)
    ELSE IF peek(sc) # QUOTE /\ ~is_at_end(sc)
         THEN string_loop(advance(IF peek(sc) = NL
                                  THEN [sc EXCEPT !.line = @ + 1]
                                  ELSE sc))
    ELSE sc

string(sc0) ==
    LET sc1 == string_loop(sc0)
        sc2 == advance(sc1)
    IN  IF ~sc1.ok THEN sc1
        ELSE IF is_at_end(sc1) THEN sc1
        ELSE IF ~sc2.ok THEN sc2
        ELSE IF ~CanSlice(sc2.start + 1, sc2.current - 1) THEN Panic(sc2)
        ELSE add_token(sc2, "String",
                       StringLiteral(Slice(sc2.start + 1, sc2.current - 1)))

RECURSIVE comment_loop(_)
comment_loop(sc) ==
    IF peek(sc) = NoChar THEN Panic(sc)
    ELSE IF peek(sc) # NL /\ ~is_at_end(sc) THEN comment_loop(advance(sc))
    ELSE sc

\* One of the two-character operators: type two when "=" follows, else one.
one_or_two(sc, two, one) ==
    LET m == match_second(sc, "=")
    IN  IF ~m.ok THEN m
        ELSE add_token(m, IF match_second_hit(sc, "=") THEN two ELSE one, NoLiteral)

scan_token(sc0) ==
    LET c == chars_nth(sc0.current)
        sc == advance(sc0)
    IN  IF ~sc.ok THEN sc
        ELSE CASE c = "(" -> add_token(sc, "LeftParen", NoLiteral)
               [] c = ")" -> add_token(sc, "RightParen", NoLiteral)
               [] c = "{" -> add_token(sc, "LeftBrace", NoLiteral)
               [] c = "}" -> add_token(sc, "RightBrace", NoLiteral)
               [] c = "," -> add_token(sc, "Comma", NoLiteral)
               [] c = "." -> add_token(sc, "Dot", NoLiteral)
               [] c = "-" -> add_token(sc, "Minus", NoLiteral)
               [] c = "+" -> add_token(sc, "Plus", NoLiteral)
               [] c = ";" -> add_token(sc, "Semicolon", NoLiteral)
               [] c = "*" -> add_token(sc, "Star", NoLiteral)
               [] c = "!" -> one_or_two(sc, "BangEqual", "Bang")
               [] c = "=" -> one_or_two(sc, "EqualEqual", "Equal")
               [] c = "<" -> one_or_two(sc, "LessEqual", "Less")
               [] c = ">" -> one_or_two(sc, "GreaterEqual", "Greater")
               [] c = "/" ->
                    LET m == match_second(sc, "/")
                    IN  IF ~m.ok THEN m
                        ELSE IF match_second_hit(sc, "/") THEN comment_loop(m)
                        ELSE add_token(m, "Slash", NoLiteral)
               [] c = QUOTE -> string(sc)
               [] is_digit(c) -> number(sc)
               [] is_alphabetic(c) -> identifier(sc)
               [] c \in {" ", "\t", "\r"} -> sc
               [] c = NL -> [sc EXCEPT !.line = @ + 1]
               [] OTHER -> sc

\* --------------------------------------------------------------------- ast
Binary(left, operator, right) ==
    [type |-> "Binary", left |-> left, operator |-> operator, right |-> right]
Grouping(expr) == [type |-> "Grouping", expr |-> expr]
Literal(lit) == [type |-> "Literal", literal |-> lit]
Unary(operator, right) == [type |-> "Unary", operator |-> operator, right |-> right]

\* ------------------------------------------------------------------ parser
\* A Result<Expr, ParserError> with the parser's cursor afterwards; Panicked
\* is a panic inside the parser (an unwrap on None or Err).
Ok(expr, cur) == [tag |-> "Ok", expr |-> expr, current |-> cur]
ParseError(message, cur) == [tag |-> "Err", message |-> message, current |-> cur]
Panicked(cur) == [tag |-> "Panic", current |-> cur]

parser_peek(cur) == tokens[cur + 1]
parser_is_at_end(cur) == parser_peek(cur).token_type = "Eof"

check(cur, token_type) ==
    IF parser_is_at_end(cur) THEN FALSE
    ELSE parser_peek(cur).token_type = token_type

\* advance(): the token returned is tokens[cur + 1]; the cursor afterwards.
parser_advance(cur) == IF ~parser_is_at_end(cur) THEN cur + 1 ELSE cur

\* match_tokens / match_token: Some(tokens[cur + 1]), and the cursor
\* advanced, exactly when the current token has one of the types.
match_tokens(cur, token_types) ==
    \E i \in 1..Len(token_types) : check(cur, token_types[i])
match_token(cur, token_type) == check(cur, token_type)

consume(cur, token_type, message) ==
    IF check(cur, token_type) THEN Ok(parser_peek(cur), parser_advance(cur))
    ELSE ParseError(message, cur)

equality_types == <<"BangEqual", "EqualEqual">>
comparison_types == <<"Greater", "GreaterEqual", "Less", "LessEqual">>
term_types == <<"Minus", "Plus">>
\* factor matching the operators of term.
factor_types_of_term == <<"Minus", "Plus">>
factor_types == <<"Slash", "Star">>
unary_types == <<"Bang", "Minus">>

\* `let right = next_level()?; left = binary(left, operator, right);` of the
\* loops of equality, comparison, term and factor: left is the Ok result so
\* far, whose cursor is at the operator, and right the operand's result.
\* fold with the operands exchanged: binary(right, operator, left).
fold_exchanged(left, right) ==
    IF right.tag # "Ok" THEN right
    ELSE Ok(Binary(right.expr, parser_peek(left.current), left.expr), right.current)

fold(left, right) ==
    IF right.tag # "Ok" THEN right
    ELSE Ok(Binary(left.expr, parser_peek(left.current), right.expr), right.current)

RECURSIVE expression(_), equality(_), equality_loop(_), comparison(_),
          comparison_loop(_), term(_), term_loop(_), factor(_),
          factor_loop(_), unary(_), unary_wrap(_, _), primary(_)

\* expression that takes tokens left before the Eof token as a parse error.
require_end(res) ==
    IF res.tag = "Ok" /\ ~parser_is_at_end(res.current)
    THEN ParseError("Expect end of expression.", res.current)
    ELSE res
expression_to_end(cur) == require_end(equality(cur))

expression(cur) == equality(cur)

\* The rest of a level after an operand: left is the result of the first
\* operand or of the last fold, an Err or Panic ending the level (the `?`).
equality_loop(left) ==
    IF left.tag # "Ok" THEN left
    ELSE IF match_tokens(left.current, equality_types)
    THEN equality_loop(fold(left, comparison(parser_advance(left.current))))
    ELSE left

equality(cur) == equality_loop(comparison(cur))

comparison_loop(left) ==
    IF left.tag # "Ok" THEN left
    ELSE IF match_tokens(left.current, comparison_types)
    THEN comparison_loop(fold(left, term(parser_advance(left.current))))
    ELSE left

comparison(cur) == comparison_loop(term(cur))

term_loop(left) ==
    IF left.tag # "Ok" THEN left
    ELSE IF match_tokens(left.current, term_types)
    THEN term_loop(fold(left, factor(parser_advance(left.current))))
    ELSE left

term(cur) == term_loop(factor(cur))

factor_loop(left) ==
    IF left.tag # "Ok" THEN left
    ELSE IF match_tokens(left.current, factor_types)
    THEN factor_loop(fold(left, unary(parser_advance(left.current))))
    ELSE left

factor(cur) == factor_loop(unary(cur))

unary_wrap(operator, right) ==
    IF right.tag # "Ok" THEN right
    ELSE Ok(Unary(operator, right.expr), right.current)

unary(cur) ==
    IF match_tokens(cur, unary_types)
    THEN unary_wrap(parser_peek(cur), unary(parser_advance(cur)))
    ELSE primary(cur)

\* The "(" arm of primary once the inner expression has been parsed.
primary_group(inner) ==
    IF inner.tag # "Ok" THEN inner
    ELSE IF consume(inner.current, "RightParen", "Expect ')' after expression.").tag # "Ok"
    THEN Panicked(inner.current)
    ELSE Ok(Grouping(inner.expr), parser_advance(inner.current))

primary(cur) ==
    LET token == parser_peek(cur)
        next == parser_advance(cur)
    IN  IF match_token(cur, "Number")
        THEN (IF IsF64Lexeme(token.lexeme)
              THEN Ok(Literal(NumberLiteral(parse_f64(token.lexeme))), next)
              ELSE Panicked(next))
        ELSE IF match_token(cur, "String")
        THEN (IF token.literal.kind # "None" THEN Ok(Literal(token.literal), next)
              ELSE Panicked(next))
        ELSE IF match_token(cur, "True") THEN Ok(Literal(TrueLiteral), next)
        ELSE IF match_token(cur, "False") THEN Ok(Literal(FalseLiteral), next)
        ELSE IF match_token(cur, "Nil") THEN Ok(Literal(NilLiteral), next)
        ELSE IF match_token(cur, "LeftParen")
        THEN primary_group(expression(next))
        ELSE ParseError("Expect expression.", cur)

\* ------------------------------------------------------------- interpreter
NumberValue(v) == [shape |-> "Number", num |-> v]
StringValue(cs) == [shape |-> "String", chars |-> cs]
BoolValue(b) == [shape |-> "Bool", bool |-> b]
NoneValue == [shape |-> "None"]

Value(v) == [tag |-> "Ok", value |-> v]
Unsupported(token) == [tag |-> "Err", kind |-> "Unsupported", token |-> token]

NoArm == [tag |-> "NoArm"]
BothNumbers(left, right) == left.shape = "Number" /\ right.shape = "Number"
BothStrings(left, right) == left.shape = "String" /\ right.shape = "String"

\* The arms of the match on (operator.token_type, left, right) of a Binary
\* node, by operator; NoArm when none of them matches.
arithmetic_arms(op, left, right) ==
    CASE op = "Minus" /\ BothNumbers(left, right) ->
            Value(NumberValue(FSub(left.num, right.num)))
      [] op = "Slash" /\ BothNumbers(left, right) ->
            Value(NumberValue(FDiv(left.num, right.num)))
      [] op = "Star" /\ BothNumbers(left, right) ->
            Value(NumberValue(FMul(left.num, right.num)))
      [] op = "Plus" /\ BothNumbers(left, right) ->
            Value(NumberValue(FAdd(left.num, right.num)))
      [] op = "Plus" /\ BothStrings(left, right) ->
            Value(StringValue(left.chars \o right.chars))
      [] OTHER -> NoArm

comparison_arms(op, left, right) ==
    CASE op = "Greater" /\ BothNumbers(left, right) ->
            Value(BoolValue(FGt(left.num, right.num)))
      [] op = "GreaterEqual" /\ BothNumbers(left, right) ->
            Value(BoolValue(FGe(left.num, right.num)))
      [] op = "Less" /\ BothNumbers(left, right) ->
            Value(BoolValue(FLt(left.num, right.num)))
      [] op = "LessEqual" /\ BothNumbers(left, right) ->
            Value(BoolValue(FLe(left.num, right.num)))
      [] OTHER -> NoArm

\* equal_equal_arms with a last arm (EqualEqual, _, _) => Bool(false).
equal_equal_arms_fallback(op, left, right) ==
    CASE op = "EqualEqual" /\ BothNumbers(left, right) ->
            Value(BoolValue(FEq(left.num, right.num)))
      [] op = "EqualEqual" /\ BothStrings(left, right) ->
            Value(BoolValue(left.chars = right.chars))
      [] op = "EqualEqual" /\ left.shape = "None" /\ right.shape = "None" ->
            Value(BoolValue(TRUE))
      [] op = "EqualEqual" -> Value(BoolValue(FALSE))
      [] OTHER -> NoArm

equal_equal_arms(op, left, right) ==
    CASE op = "EqualEqual" /\ BothNumbers(left, right) ->
            Value(BoolValue(FEq(left.num, right.num)))
      [] op = "EqualEqual" /\ BothStrings(left, right) ->
            Value(BoolValue(left.chars = right.chars))
      [] op = "EqualEqual" /\ left.shape = "None" /\ right.shape = "None" ->
            Value(BoolValue(TRUE))
      [] OTHER -> NoArm

\* bang_equal_arms comparing with != instead of ==.
bang_equal_arms_negated(op, left, right) ==
    CASE op = "BangEqual" /\ BothNumbers(left, right) ->
            Value(BoolValue(~FEq(left.num, right.num)))
      [] op = "BangEqual" /\ BothStrings(left, right) ->
            Value(BoolValue(left.chars # right.chars))
      [] OTHER -> NoArm

bang_equal_arms(op, left, right) ==
    CASE op = "BangEqual" /\ BothNumbers(left, right) ->
            Value(BoolValue(FEq(left.num, right.num)))
      [] op = "BangEqual" /\ BothStrings(left, right) ->
            Value(BoolValue(left.chars = right.chars))
      [] OTHER -> NoArm

\* binary_op whose Plus arm for Numbers does not look at the right operand.
binary_op_unchecked_right(operator, left, right) ==
    LET op == operator.token_type
    IN  IF op = "Plus" /\ left.shape = "Number" /\ right.shape # "Number"
        THEN Value(left)
        ELSE IF arithmetic_arms(op, left, right).tag # "NoArm"
        THEN arithmetic_arms(op, left, right)
        ELSE IF comparison_arms(op, left, right).tag # "NoArm"
        THEN comparison_arms(op, left, right)
        ELSE IF equal_equal_arms(op, left, right).tag # "NoArm"
        THEN equal_equal_arms(op, left, right)
        ELSE IF bang_equal_arms(op, left, right).tag # "NoArm"
        THEN bang_equal_arms(op, left, right)
        ELSE Unsupported(operator)

\* The match on (operator.token_type, left, right) of a Binary node: the
\* first arm that matches, the `_` arm when none does.
binary_op(operator, left, right) ==
    LET op == operator.token_type
    IN  IF arithmetic_arms(op, left, right).tag # "NoArm"
        THEN arithmetic_arms(op, left, right)
        ELSE IF comparison_arms(op, left, right).tag # "NoArm"
        THEN comparison_arms(op, left, right)
        ELSE IF equal_equal_arms(op, left, right).tag # "NoArm"
        THEN equal_equal_arms(op, left, right)
        ELSE IF bang_equal_arms(op, left, right).tag # "NoArm"
        THEN bang_equal_arms(op, left, right)
        ELSE Unsupported(operator)

\* unary_op whose (Bang, Number) arm tests number != 0.0.
unary_op_nonzero(operator, right) ==
    LET op == operator.token_type
    IN  CASE op = "Bang" /\ right.shape = "Number" ->
                Value(BoolValue(~FEq(right.num, Zero)))
          [] op = "Bang" /\ right.shape = "Bool" -> Value(BoolValue(~right.bool))
          [] op = "Bang" /\ right.shape = "None" -> Value(BoolValue(FALSE))
          [] op = "Bang" -> Value(BoolValue(TRUE))
          [] op = "Minus" /\ right.shape = "Number" -> Value(NumberValue(FNeg(right.num)))
          [] OTHER -> Unsupported(operator)

\* unary_op whose (Bang, Number) arm tests number >= 0.0.
unary_op_nonnegative(operator, right) ==
    LET op == operator.token_type
    IN  CASE op = "Bang" /\ right.shape = "Number" ->
                Value(BoolValue(FGe(right.num, Zero)))
          [] op = "Bang" /\ right.shape = "Bool" -> Value(BoolValue(~right.bool))
          [] op = "Bang" /\ right.shape = "None" -> Value(BoolValue(FALSE))
          [] op = "Bang" -> Value(BoolValue(TRUE))
          [] op = "Minus" /\ right.shape = "Number" -> Value(NumberValue(FNeg(right.num)))
          [] OTHER -> Unsupported(operator)

\* The match on (operator.token_type, right) of a Unary node.
unary_op(operator, right) ==
    LET op == operator.token_type
    IN  CASE op = "Bang" /\ right.shape = "Number" ->
                Value(BoolValue(FGt(right.num, Zero)))
          [] op = "Bang" /\ right.shape = "Bool" -> Value(BoolValue(~right.bool))
          [] op = "Bang" /\ right.shape = "None" -> Value(BoolValue(FALSE))
          [] op = "Bang" -> Value(BoolValue(TRUE))
          [] op = "Minus" /\ right.shape = "Number" -> Value(NumberValue(FNeg(right.num)))
          [] OTHER -> Unsupported(operator)

literal_value(lit) ==
    CASE lit.kind = "String" -> Value(StringValue(lit.chars))
      [] lit.kind = "Number" -> Value(NumberValue(lit.value))
      [] lit.kind = "True" -> Value(BoolValue(TRUE))
      [] lit.kind = "False" -> Value(BoolValue(FALSE))
      [] lit.kind = "Nil" -> Value(NoneValue)

RECURSIVE evaluate(_)
evaluate(expr) ==
    CASE expr.type = "Binary" ->
            LET left == evaluate(expr.left)
                right == evaluate(expr.right)
            IN  IF left.tag # "Ok" THEN left
                ELSE IF right.tag # "Ok" THEN right
                ELSE binary_op(expr.operator, left.value, right.value)
      [] expr.type = "Grouping" -> evaluate(expr.expr)
      [] expr.type = "Unary" ->
            LET right == evaluate(expr.right)
            IN  IF right.tag # "Ok" THEN right
                ELSE unary_op(expr.operator, right.value)
      [] expr.type = "Literal" -> literal_value(expr.literal)

\* ----------------------------------------------------------------- display
RECURSIVE NatToStr(_)
NatToStr(n) ==
    LET d == <<"0", "1", "2", "3", "4", "5", "6", "7", "8", "9">>[(n % 10) + 1]
    IN  IF n < 10 THEN d ELSE NatToStr(n \div 10) \o d

\* format!("{:.1}", v): one digit after the point, nearest with ties to even.
format_f64(v) ==
    LET q == (v.n * 10) \div v.d
        r == (v.n * 10) % v.d
        m == IF 2 * r > v.d \/ (2 * r = v.d /\ q % 2 = 1) THEN q + 1 ELSE q
        sign == IF v.s = 1 THEN "-" ELSE ""
    IN  CASE v.k = "nan" -> "NaN"
          [] v.k = "inf" -> sign \o "inf"
          [] OTHER -> sign \o NatToStr(m \div 10) \o "." \o NatToStr(m % 10)

\* The arms of the match on a Literal in Display for Expr.
literal_to_string(lit) ==
    CASE lit.kind = "String" -> Str(lit.chars)
      [] lit.kind = "Number" -> format_f64(lit.value)

RECURSIVE to_string(_)
\* impl Display for Expr
to_string(expr) ==
    CASE expr.type = "Binary" ->
            "(" \o Str(expr.operator.lexeme) \o " " \o to_string(expr.left)
                \o " " \o to_string(expr.right) \o ")"
      [] expr.type = "Grouping" -> "(group " \o to_string(expr.expr) \o ")"
      [] expr.type = "Literal" -> literal_to_string(expr.literal)
      [] expr.type = "Unary" ->
            "(" \o Str(expr.operator.lexeme) \o " " \o to_string(expr.right) \o ")"

RECURSIVE HasDisplay(_)
\* Whether every Literal of expr has an arm in Display for Expr (the match
\* names Literal::String and Literal::Number only).
HasDisplay(expr) ==
    CASE expr.type = "Binary" -> HasDisplay(expr.left) /\ HasDisplay(expr.right)
      [] expr.type = "Grouping" -> HasDisplay(expr.expr)
      [] expr.type = "Literal" -> expr.literal.kind \in {"String", "Number"}
      [] expr.type = "Unary" -> HasDisplay(expr.right)

\* ----------------------------------------------------------------- sources
RECURSIVE Cat(_)
\* The concatenation of a sequence of character sequences.
Cat(parts) == IF parts = <<>> THEN <<>> ELSE Head(parts) \o Cat(Tail(parts))

\* Every string of at most MaxLen characters over Alphabet.
Alphabet == {"(", "1", ".", QUOTE, NL, "/", "=", "a", " ", EAcute, Euro, "@"}
CharSources == UNION {[1..n -> Alphabet] : n \in 0..MaxLen}

\* [unary] [unary] operand, and [unary] operand op [unary] operand, over
\* operands of every literal kind and every binary operator of the grammar.
Operands ==
    {<<"0">>, <<"1">>, <<QUOTE, "a", QUOTE>>, <<QUOTE, "b", QUOTE>>,
     <<"t", "r", "u", "e">>, <<"f", "a", "l", "s", "e">>, <<"n", "i", "l">>}
BinaryOps ==
    {<<"-">>, <<"/">>, <<"*">>, <<"+">>, <<">">>, <<">", "=">>, <<"<">>,
     <<"<", "=">>, <<"=", "=">>, <<"!", "=">>}
Prefixes == {<<>>, <<"!">>, <<"-">>}
UnarySources == {p \o o : p \in Prefixes, o \in Operands}
NestedUnarySources == {p \o q \o o : p \in Prefixes, q \in Prefixes, o \in Operands}
EvalSources ==
    NestedUnarySources
    \cup {l \o b \o r : l \in UnarySources, b \in BinaryOps, r \in UnarySources}

\* Chains 1 op 2 op 3 ... of at most MaxOps binary operators, bare or with
\* the operands i..j in parentheses, the closing one present or missing.
ChainOps == {<<"=", "=">>, <<"<">>, <<"+">>, <<"-">>, <<"*">>, <<"/">>}
OperandDigit(k) == <<<<"1">>, <<"2">>, <<"3">>, <<"4">>, <<"5">>, <<"6">>>>[k]
ChainPart(ops, i, j, closed, k) ==
    (IF k = i THEN <<"(">> ELSE <<>>)
    \o OperandDigit(k)
    \o (IF k = j /\ closed THEN <<")">> ELSE <<>>)
    \o (IF k <= Len(ops) THEN ops[k] ELSE <<>>)
Chain(ops, i, j, closed) ==
    Cat([k \in 1..(Len(ops) + 1) |-> ChainPart(ops, i, j, closed, k)])
ChainsOf(n) ==
    UNION {{Chain(ops, 0, 0, FALSE)}
           \cup {Chain(ops, i, j, c) : i \in 1..(n + 1), j \in 1..(n + 1), c \in BOOLEAN}
           : ops \in [1..n -> ChainOps]}
ChainSources == UNION {ChainsOf(n) : n \in 1..MaxOps}

\* The inputs of the repository's tests (scanner.rs, parser.rs, interpreter.rs).
TestSources ==
    { <<"1">>
    , <<"1", " ", "+", " ", "2">>
    , <<"(", "1", " ", "+", " ", "2", ")">>
    , <<"1", " ", "-", " ", "2">>
    , <<"1", " ", "*", " ", "2">>
    , <<"1", " ", "/", " ", "2">>
    , <<"1", " ", "+", " ", "2", " ", "*", " ", "3">>
    , <<"1", " ", "+", " ", "2", " ", "*", " ", "3", " ", "-", " ", "4">>
    , <<"1", " ", "+", " ", "(", "2", " ", "*", " ", "3", ")", " ", "-", " ", "4">>
    , <<"1", " ", "+", " ", "(", "2", " ", "*", " ", "3", ")", " ", "-", " ", "(", "4", " ", "*", " ", "5", ")">>
    , <<"-", "4", "5", "6">>
    , <<"2", " ", ">", " ", "1">>
    , <<"1", " ", ">", " ", "2">>
    , <<"4", " ", "+", " ", "2">>
    , <<"1", " ", "+", " ", "1", " ", "*", " ", "3">>
    , <<"(", "1", " ", "+", " ", "1", ")", " ", "*", " ", "3">>
    , <<"4", "0", "0", " ", "-", " ", "4", "0", "2">>
    , <<QUOTE, "o", "n", "e", QUOTE>>
    , <<QUOTE, "o", "n", "e", QUOTE, " ", "=", "=", " ", QUOTE, "o", "n", "e", QUOTE>>
    , <<QUOTE, "o", "n", "e", QUOTE, " ", "!", "=", " ", QUOTE, "t", "w", "o", QUOTE>>
    , <<QUOTE, "h", "e", "l", "l", "o", " ", QUOTE, " ", "+", " ", QUOTE, "w", "o", "r", "l", "d", QUOTE>>
    , <<"5", " ", "+", " ", "t", "r", "u", "e">>
    , <<"(", "{", " ", "}", ")">>
    , <<"!", "=", " ", "<", "=", " ", "=", "=", " ", "=">>
    , <<QUOTE, "h", "e", "l", "l", "o", QUOTE>>
    , <<QUOTE, "h", "e", "l", "l", "o", NL, "w", "o", "r", "l", "d", QUOTE>>
    , <<"1", "2", "3", ".", "4", "5", "6", " ", "4", "2">>
    , <<"f", "o", "o", " ", "b", "a", "r">>
    , <<"f", "o", "r", " ", "r", "e", "t", "u", "r", "n", " ", "v", "a", "r">>
    , <<"/", "/", " ", "s", "o", "m", "e", " ", "c", "o", "m", "m", "e", "n", "t", NL, " ", "(", ")", " ", "/", "/", " ", "c", "o", "m", "m", "e", "n", "t", " ", "a", "f", "t", "e", "r">>
    }

\* The inputs the specification names.
SpecSources ==
    { <<"1", " ", "-", " ", "2", " ", "-", " ", "3">>
    , <<"(", "1", " ", "+", " ", "2", ")", " ", "*", " ", "3">>
    , <<"(", "1", " ", "+", " ", "2">>
    , <<"!", "0">>
    , <<"!", "1">>
    , <<"1", " ", "2">>
    , <<"1", " ", ")">>
    }

\* Complete expressions, and token runs whose first token continues none of
\* them: it is not an operator of equality, comparison, term or factor.
Leads ==
    { <<"1">>
    , <<"(", "1", ")">>
    , <<"1", " ", "+", " ", "2">>
    , <<"-", "1">>
    }
Trails ==
    { <<"2">>
    , <<")">>
    , <<"(">>
    , <<"a">>
    , <<"!">>
    , <<")", " ", "+", " ", "3">>
    }
TrailingSources == {lead \o <<" ">> \o trail : lead \in Leads, trail \in Trails}

Sources ==
    CharSources \cup EvalSources \cup ChainSources \cup TestSources
    \cup SpecSources \cup TrailingSources

\* ------------------------------------------------------------------ states
NoResult == [tag |-> "None"]

\* Scanner::new(source)
Init ==
    /\ source \in Sources
    /\ start = 0
    /\ current = 0
    /\ line = 1
    /\ tokens = <<>>
    /\ pc = "scan"
    /\ parsed = NoResult
    /\ result = NoResult
    /\ text = ""

Self == ScannerState(start, current, line, tokens)

\* One iteration of the loop of scan_tokens: start = current; scan_token().
ScanToken ==
    /\ pc = "scan"
    /\ ~is_at_end(Self)
    /\ LET sc == scan_token([Self EXCEPT !.start = current])
       IN  /\ start' = sc.start
           /\ current' = sc.current
           /\ line' = sc.line
           /\ tokens' = sc.tokens
           /\ pc' = IF sc.ok THEN "scan" ELSE "panic"
    /\ UNCHANGED <<source, parsed, result, text>>

\* ScanEof with the Eof token stamped with line 0 and not with self.line.
ScanEofLineZero ==
    /\ pc = "scan"
    /\ is_at_end(Self)
    /\ tokens' = Append(tokens, Token("Eof", <<>>, NoLiteral, 0))
    /\ pc' = "scanned"
    /\ UNCHANGED <<source, start, current, line, parsed, result, text>>

\* The end of scan_tokens: the loop has ended and the Eof token is pushed.
ScanEof ==
    /\ pc = "scan"
    /\ is_at_end(Self)
    /\ tokens' = Append(tokens, Token("Eof", <<>>, NoLiteral, line))
    /\ pc' = "scanned"
    /\ UNCHANGED <<source, start, current, line, parsed, result, text>>

\* Parser::new(tokens).expression()
ParseExpression ==
    /\ pc = "scanned"
    /\ parsed' = expression(0)
    /\ pc' = IF parsed'.tag = "Panic" THEN "panic" ELSE "parsed"
    /\ UNCHANGED <<source, start, current, line, tokens, result, text>>

\* Interpreter.evaluate(&expr), as interpret() of main.rs runs it on Ok(expr).
Evaluate ==
    /\ pc = "parsed"
    /\ parsed.tag = "Ok"
    /\ result' = evaluate(parsed.expr)
    /\ pc' = "evaluated"
    /\ UNCHANGED <<source, start, current, line, tokens, parsed, text>>

\* expr.to_string(), as test_exression of parser.rs runs it on the parsed tree.
Display ==
    /\ pc = "parsed"
    /\ parsed.tag = "Ok"
    /\ HasDisplay(parsed.expr)
    /\ text' = to_string(parsed.expr)
    /\ pc' = "displayed"
    /\ UNCHANGED <<source, start, current, line, tokens, parsed, result>>

Next == ScanToken \/ ScanEof \/ ParseExpression \/ Evaluate \/ Display

Spec == Init /\ [][Next]_vars

\* ------------------------------------------------------------------ claims
\* The scanner panicked: the pipeline stopped before any parse.
ScanPanicked == pc = "panic" /\ parsed.tag = "None"
\* The parser panicked.
ParsePanicked == pc = "panic" /\ parsed.tag = "Panic"
\* Parser::expression has returned or panicked.
AfterParse == pc \in {"parsed", "evaluated", "displayed"} \/ ParsePanicked

EofCount == Cardinality({i \in 1..Len(tokens) : tokens[i].token_type = "Eof"})

\* C1: for every source string, scan_tokens never raises, and the sequence
\* it returns ends with the end-of-input token and holds exactly one such
\* token.
C1_ScanNeverRaises ==
    /\ ~ScanPanicked
    /\ pc = "scanned" =>
          /\ tokens # <<>>
          /\ tokens[Len(tokens)].token_type = "Eof"
          /\ EofCount = 1

\* The sources "(" expression with no ")" after it: "(1 + 2" and the chains
\* opened before their first operand and never closed.
UnclosedSources ==
    {<<"(", "1", " ", "+", " ", "2">>}
    \cup UNION {{Chain(ops, 1, 1, FALSE) : ops \in [1..n -> ChainOps]} : n \in 1..MaxOps}

\* C2: when "(" and a complete inner expression are not followed by ")",
\* Parser::expression returns the parse error "Expect ')' after expression."
\* to its caller (and no expression).
C2_MissingParenIsParseError ==
    (source \in UnclosedSources /\ AfterParse) =>
        /\ parsed.tag = "Err"
        /\ parsed.message = "Expect ')' after expression."

RECURSIVE Nodes(_)
\* The nodes of the tree expr, each before its children, left before right.
Nodes(expr) ==
    <<expr>> \o
    (CASE expr.type = "Binary" -> Nodes(expr.left) \o Nodes(expr.right)
       [] expr.type = "Grouping" -> Nodes(expr.expr)
       [] expr.type = "Unary" -> Nodes(expr.right)
       [] expr.type = "Literal" -> <<>>)

ParsedNodes == IF parsed.tag = "Ok" THEN Nodes(parsed.expr) ELSE <<>>

\* What evaluate returned for the i-th node of the parsed tree: the result
\* of the Evaluate step for the root, of the recursive call for the others.
NodeResult(i) == IF i = 1 THEN result ELSE evaluate(ParsedNodes[i])

\* A Binary node both of whose operands have a value, and the two values.
IsBinaryOfValues(n) ==
    n.type = "Binary" /\ evaluate(n.left).tag = "Ok" /\ evaluate(n.right).tag = "Ok"
LeftValue(n) == evaluate(n.left).value
RightValue(n) == evaluate(n.right).value
\* A Unary node whose operand has a value, and the value.
IsUnaryOfValue(n) == n.type = "Unary" /\ evaluate(n.right).tag = "Ok"
OperandValue(n) == evaluate(n.right).value

IsUnsupported(res, token) ==
    res.tag = "Err" /\ res.kind = "Unsupported" /\ res.token = token
IsBool(res, b) == res.tag = "Ok" /\ res.value.shape = "Bool" /\ res.value.bool = b

\* The pairings of operator and operand shapes the language defines.
DefinedPairing(op, l, r) ==
    \/ /\ op \in {"Minus", "Slash", "Star", "Plus", "Greater", "GreaterEqual",
                  "Less", "LessEqual", "EqualEqual", "BangEqual"}
       /\ l = "Number" /\ r = "Number"
    \/ op \in {"Plus", "EqualEqual", "BangEqual"} /\ l = "String" /\ r = "String"
    \/ op = "EqualEqual" /\ l = "None" /\ r = "None"

FivePlusTrue == <<"5", " ", "+", " ", "t", "r", "u", "e">>

\* C3: a Binary node whose (operator, left shape, right shape) is not a
\* defined pairing, and a Unary "-" node whose operand is not a Number,
\* evaluate to the unsupported-operator error carrying that node's operator
\* token; evaluating "5 + true" fails.
C3_UndefinedPairingIsUnsupported ==
    pc = "evaluated" =>
        /\ \A i \in 1..Len(ParsedNodes) :
              LET n == ParsedNodes[i]
              IN  /\ (/\ IsBinaryOfValues(n)
                      /\ ~DefinedPairing(n.operator.token_type,
                                         LeftValue(n).shape, RightValue(n).shape))
                        => IsUnsupported(NodeResult(i), n.operator)
                  /\ (/\ IsUnaryOfValue(n)
                      /\ n.operator.token_type = "Minus"
                      /\ OperandValue(n).shape # "Number")
                        => IsUnsupported(NodeResult(i), n.operator)
        /\ source = FivePlusTrue => result.tag = "Err"

C3_Witness ==
    /\ pc = "evaluated"
    /\ source = FivePlusTrue
    /\ IsBinaryOfValues(parsed.expr)
    /\ LeftValue(parsed.expr).shape = "Number"
    /\ RightValue(parsed.expr).shape = "Bool"
    /\ IsUnsupported(result, parsed.expr.operator)

\* C4: "==" returns Bool(l == r) for two Numbers and for two Strings,
\* Bool(true) for None and None, and the unsupported-operator error for
\* every other pairing of operand values, Bool with Bool included.
C4_EqualEqual ==
    pc = "evaluated" =>
        \A i \in 1..Len(ParsedNodes) :
            LET n == ParsedNodes[i]
                l == LeftValue(n)
                r == RightValue(n)
            IN  (IsBinaryOfValues(n) /\ n.operator.token_type = "EqualEqual") =>
                    IF l.shape = "Number" /\ r.shape = "Number"
                    THEN IsBool(NodeResult(i), FEq(l.num, r.num))
                    ELSE IF l.shape = "String" /\ r.shape = "String"
                    THEN IsBool(NodeResult(i), l.chars = r.chars)
                    ELSE IF l.shape = "None" /\ r.shape = "None"
                    THEN IsBool(NodeResult(i), TRUE)
                    ELSE IsUnsupported(NodeResult(i), n.operator)

C4_Witness ==
    /\ pc = "evaluated"
    /\ IsBinaryOfValues(parsed.expr)
    /\ parsed.expr.operator.token_type = "EqualEqual"
    /\ LeftValue(parsed.expr).shape = "Bool"
    /\ RightValue(parsed.expr).shape = "Bool"
    /\ IsUnsupported(result, parsed.expr.operator)

OneBangEqualTwo ==
    <<QUOTE, "o", "n", "e", QUOTE, " ", "!", "=", " ", QUOTE, "t", "w", "o", QUOTE>>

\* C5: for two Numbers and for two Strings "!=" returns the Bool that "=="
\* returns for them (true when equal, false when they differ; "one" != "two"
\* is Bool(false)); for None and None and every other pairing it returns the
\* unsupported-operator error.
C5_BangEqualIsEqualEqual ==
    pc = "evaluated" =>
        /\ \A i \in 1..Len(ParsedNodes) :
              LET n == ParsedNodes[i]
                  l == LeftValue(n)
                  r == RightValue(n)
              IN  (IsBinaryOfValues(n) /\ n.operator.token_type = "BangEqual") =>
                      IF l.shape = "Number" /\ r.shape = "Number"
                      THEN /\ IsBool(NodeResult(i), FEq(l.num, r.num))
                           /\ NodeResult(i) = equal_equal_arms("EqualEqual", l, r)
                      ELSE IF l.shape = "String" /\ r.shape = "String"
                      THEN /\ IsBool(NodeResult(i), l.chars = r.chars)
                           /\ NodeResult(i) = equal_equal_arms("EqualEqual", l, r)
                      ELSE IsUnsupported(NodeResult(i), n.operator)
        /\ source = OneBangEqualTwo => IsBool(result, FALSE)

C5_Witness ==
    /\ pc = "evaluated"
    /\ source = OneBangEqualTwo
    /\ IsBinaryOfValues(parsed.expr)
    /\ parsed.expr.operator.token_type = "BangEqual"
    /\ LeftValue(parsed.expr).chars # RightValue(parsed.expr).chars
    /\ IsBool(result, FALSE)

\* C6: unary "!" never fails on an operand that has a value: it returns
\* Bool(n > 0.0) for a Number n, Bool(!v) for Bool(v), Bool(false) for None
\* and Bool(true) for a String.
C6_BangIsTotal ==
    pc = "evaluated" =>
        \A i \in 1..Len(ParsedNodes) :
            LET n == ParsedNodes[i]
                v == OperandValue(n)
            IN  (IsUnaryOfValue(n) /\ n.operator.token_type = "Bang") =>
                    CASE v.shape = "Number" -> IsBool(NodeResult(i), FLt(Zero, v.num))
                      [] v.shape = "Bool" -> IsBool(NodeResult(i), ~v.bool)
                      [] v.shape = "None" -> IsBool(NodeResult(i), FALSE)
                      [] v.shape = "String" -> IsBool(NodeResult(i), TRUE)

\* "!" applied to a negative Number: Bool(false).
C6_Witness ==
    /\ pc = "evaluated"
    /\ IsUnaryOfValue(parsed.expr)
    /\ parsed.expr.operator.token_type = "Bang"
    /\ OperandValue(parsed.expr).shape = "Number"
    /\ OperandValue(parsed.expr).num.s = 1
    /\ OperandValue(parsed.expr).num.n > 0
    /\ IsBool(result, FALSE)

BangZero == <<"!", "0">>
BangOne == <<"!", "1">>

\* C7 as stated: evaluating "!0" yields Bool(true) and evaluating "!1"
\* yields Bool(false).
C7_Original ==
    pc = "evaluated" =>
        /\ source = BangZero => IsBool(result, TRUE)
        /\ source = BangOne => IsBool(result, FALSE)

\* C7 as amended: evaluating "!0" yields Bool(false) and evaluating "!1"
\* yields Bool(true), "!" of a Number n being Bool(n > 0.0).
C7_BangOfZeroAndOne ==
    pc = "evaluated" =>
        /\ source = BangZero => IsBool(result, FALSE)
        /\ source = BangOne => IsBool(result, TRUE)

C7_Witness ==
    /\ pc = "evaluated"
    /\ source = BangZero
    /\ parsed.expr.type = "Unary"
    /\ parsed.expr.right.literal.value = Zero
    /\ IsBool(result, FALSE)

\* The precedence level of a binary operator in the grammar: equality <
\* comparison < term < factor.
Level(token_type) ==
    CASE token_type \in {"BangEqual", "EqualEqual"} -> 1
      [] token_type \in {"Greater", "GreaterEqual", "Less", "LessEqual"} -> 2
      [] token_type \in {"Minus", "Plus"} -> 3
      [] token_type \in {"Slash", "Star"} -> 4

\* The Literal node of the whole number k.
Num(k) == Literal(NumberLiteral(Fin(0, k, 1)))

OnePlusTwoTimesThree == <<"1", " ", "+", " ", "2", " ", "*", " ", "3">>
GroupTimesThree == <<"(", "1", " ", "+", " ", "2", ")", " ", "*", " ", "3">>

\* C8: in the tree the parser builds, a Binary node of a higher precedence
\* level is never the parent of a Binary node of a lower level (a lower
\* level is reached only through a Grouping); "1 + 2 * 3" parses to
\* Binary(1, +, Binary(2, *, 3)) and "(1 + 2) * 3" to
\* Binary(Grouping(Binary(1, +, 2)), *, 3).
C8_Precedence ==
    AfterParse =>
        /\ \A i \in 1..Len(ParsedNodes) :
              LET n == ParsedNodes[i]
              IN  n.type = "Binary" =>
                    /\ n.left.type = "Binary" =>
                          Level(n.left.operator.token_type) >= Level(n.operator.token_type)
                    /\ n.right.type = "Binary" =>
                          Level(n.right.operator.token_type) >= Level(n.operator.token_type)
        /\ source = OnePlusTwoTimesThree =>
              /\ parsed.tag = "Ok"
              /\ tokens[2].token_type = "Plus" /\ tokens[4].token_type = "Star"
              /\ parsed.expr = Binary(Num(1), tokens[2], Binary(Num(2), tokens[4], Num(3)))
        /\ source = GroupTimesThree =>
              /\ parsed.tag = "Ok"
              /\ tokens[3].token_type = "Plus" /\ tokens[6].token_type = "Star"
              /\ parsed.expr =
                    Binary(Grouping(Binary(Num(1), tokens[3], Num(2))), tokens[6], Num(3))

\* A factor under a term, a term under a comparison or under an equality.
C8_Witness ==
    /\ pc = "parsed"
    /\ parsed.tag = "Ok"
    /\ parsed.expr.type = "Binary"
    /\ parsed.expr.right.type = "Binary"
    /\ Level(parsed.expr.right.operator.token_type) > Level(parsed.expr.operator.token_type)
    /\ parsed.expr.left.type = "Literal"

RECURSIVE Operators(_)
\* The operator tokens of a tree, read from left to right.
Operators(expr) ==
    CASE expr.type = "Binary" ->
            Operators(expr.left) \o <<expr.operator>> \o Operators(expr.right)
      [] expr.type = "Grouping" -> Operators(expr.expr)
      [] expr.type = "Unary" -> <<expr.operator>> \o Operators(expr.right)
      [] expr.type = "Literal" -> <<>>

IsOperator(token) ==
    token.token_type \in {"BangEqual", "EqualEqual", "Greater", "GreaterEqual", "Less",
                          "LessEqual", "Minus", "Plus", "Slash", "Star", "Bang"}

RECURSIVE LeftNested(_)
\* The tree ((1 op 2) op 3) ... of the first k operators of a chain whose
\* tokens are 1 op 2 op 3 ...: the operators are the tokens 2, 4, ...
LeftNested(k) ==
    IF k = 0 THEN Num(1)
    ELSE Binary(LeftNested(k - 1), tokens[2 * k], Num(k + 1))

SameLevel(ops) ==
    \A i, j \in 1..Len(ops) :
        \E lv \in {{<<"=", "=">>}, {<<"<">>}, {<<"+">>, <<"-">>}, {<<"*">>, <<"/">>}} :
            ops[i] \in lv /\ ops[j] \in lv

\* C9: every binary level is strictly left-associative: a chain of operands
\* joined by operators of one level parses to Binary(Binary(a, op1, b), op2, c)
\* ..., no Binary node has a Binary node of its own level as right child, and
\* the operators of the tree, read from left to right, are the operator
\* tokens consumed, in source order.
C9_LeftAssociative ==
    (AfterParse /\ parsed.tag = "Ok") =>
        /\ \A i \in 1..Len(ParsedNodes) :
              LET n == ParsedNodes[i]
              IN  (n.type = "Binary" /\ n.right.type = "Binary") =>
                      Level(n.right.operator.token_type) > Level(n.operator.token_type)
        /\ Operators(parsed.expr)
              = SelectSeq(SubSeq(tokens, 1, parsed.current), IsOperator)
        /\ \A n \in 1..MaxOps : \A ops \in [1..n -> ChainOps] :
              (SameLevel(ops) /\ source = Chain(ops, 0, 0, FALSE)) =>
                  /\ \A k \in 1..n : tokens[2 * k].lexeme = ops[k]
                  /\ parsed.expr = LeftNested(n)

\* A chain a op1 b op2 c of two different operators of one level, parsed.
C9_Witness ==
    /\ pc = "parsed"
    /\ parsed.tag = "Ok"
    /\ parsed.expr.type = "Binary"
    /\ parsed.expr.left.type = "Binary"
    /\ parsed.expr.right.type = "Literal"
    /\ Level(parsed.expr.left.operator.token_type) = Level(parsed.expr.operator.token_type)
    /\ parsed.expr.left.operator.token_type # parsed.expr.operator.token_type
    /\ source = Chain(<<<<"-">>, <<"+">>>>, 0, 0, FALSE)

OneMinusTwoMinusThree == <<"1", " ", "-", " ", "2", " ", "-", " ", "3">>

\* C10: the display form of the tree parsed from "1 - 2 - 3" is exactly
\* "(- (- 1 2) 3)": Binary(l, op, r) is displayed as "(" op.lexeme " " l " " r
\* ")", Grouping(e) as "(group " e ")", and a number literal of a whole-number
\* lexeme such as "1" as "1", without a fractional part.
C10_DisplayForm ==
    pc = "displayed" =>
        /\ source = OneMinusTwoMinusThree => text = "(- (- 1 2) 3)"
        /\ source = <<"1">> => text = "1"
        /\ parsed.expr.type = "Binary" =>
              text = "(" \o Str(parsed.expr.operator.lexeme) \o " "
                         \o to_string(parsed.expr.left) \o " "
                         \o to_string(parsed.expr.right) \o ")"
        /\ parsed.expr.type = "Grouping" =>
              text = "(group " \o to_string(parsed.expr.expr) \o ")"

\* The lines of the tokens pushed so far start at 1 or more, never decrease
\* from a token to the next, and never exceed the scanner's line counter.
TokenLinesOrdered ==
    /\ line >= 1
    /\ \A i \in 1..Len(tokens) : tokens[i].line >= 1 /\ tokens[i].line <= line
    /\ \A i \in 1..(Len(tokens) - 1) : tokens[i].line <= tokens[i + 1].line

\* C11: in the token sequence of scan_tokens, at every point of the scan and
\* in the returned sequence with its Eof token, token lines are 1 or more and
\* never decrease from each token to the next; and no step of the scan
\* decreases the scanner's line counter.
C11_LinesMonotone == [] TokenLinesOrdered /\ [][line' >= line]_vars

\* A returned sequence whose tokens lie on different lines, the Eof token on
\* a later line than the first token.
C11_Witness ==
    /\ pc = "scanned"
    /\ Len(tokens) >= 2
    /\ tokens[1].line < tokens[Len(tokens)].line
    /\ tokens[Len(tokens)].token_type = "Eof"

\* The last step of the scan was scan_token on the character at start.
LastScanned == (pc = "scan" \/ ScanPanicked) /\ current > start

RECURSIVE DigitRunEnd(_)
\* The position after the run of digits that starts at position c.
DigitRunEnd(c) == IF is_digit(chars_nth(c)) THEN DigitRunEnd(c + 1) ELSE c

\* The position after the number that starts at position c: the digit run,
\* and the "." and the digits after it when a digit follows the ".".
NumberEnd(c) ==
    LET k == DigitRunEnd(c)
    IN  IF chars_nth(k) = "." /\ is_digit(chars_nth(k + 1))
        THEN DigitRunEnd(k + 1)
        ELSE k

\* C12: scanning at a digit run that a "." follows emits one Number token
\* whose lexeme is the digit run, extended by the "." and the digits after it
\* only when a digit follows the "."; otherwise the "." is left unconsumed,
\* and scanning at a "." that follows a digit emits a separate Dot token.
C12_NumberAndDot ==
    LastScanned =>
        /\ (is_digit(chars_nth(start)) /\ chars_nth(DigitRunEnd(start)) = ".") =>
              /\ ~ScanPanicked
              /\ tokens # <<>>
              /\ tokens[Len(tokens)].token_type = "Number"
              /\ tokens[Len(tokens)].lexeme = SubSeq(source, start + 1, NumberEnd(start))
              /\ current = NumberEnd(start)
        /\ (chars_nth(start) = "." /\ start > 0 /\ is_digit(chars_nth(start - 1))) =>
              /\ ~ScanPanicked
              /\ tokens # <<>>
              /\ tokens[Len(tokens)].token_type = "Dot"

\* The scanner is about to scan a '"' that no later '"' of the source closes.
AtUnterminatedString ==
    /\ pc = "scan"
    /\ chars_nth(current) = QUOTE
    /\ \A i \in (current + 2)..Len(source) : source[i] # QUOTE

\* The number of newlines among the characters after position c.
NewlinesAfter(c) == Cardinality({i \in (c + 2)..Len(source) : source[i] = NL})

\* C13: scanning a '"' with no closing '"' before the end of input emits
\* no token and raises nothing, consumes every remaining character and adds
\* the newlines among them to the line counter; the sequence returned is
\* then the tokens scanned before the quote followed by the Eof token.
C13_UnterminatedString ==
    [][/\ AtUnterminatedString =>
             /\ pc' = "scan"
             /\ tokens' = tokens
             /\ current' = Len(source)
             /\ line' = line + NewlinesAfter(current)
       /\ (pc = "scan" /\ pc' = "scanned") =>
             tokens' = Append(tokens, Token("Eof", <<>>, NoLiteral, line))]_vars

\* The number of tokens of a lead, and the tree it parses to on its own.
LeadTokens(lead) ==
    CASE lead = <<"1">> -> 1
      [] lead = <<"(", "1", ")">> -> 3
      [] lead = <<"1", " ", "+", " ", "2">> -> 3
      [] lead = <<"-", "1">> -> 2
LeadTree(lead) ==
    CASE lead = <<"1">> -> Num(1)
      [] lead = <<"(", "1", ")">> -> Grouping(Num(1))
      [] lead = <<"1", " ", "+", " ", "2">> -> Binary(Num(1), tokens[2], Num(2))
      [] lead = <<"-", "1">> -> Unary(tokens[1], Num(1))

\* C14: Parser::expression does not require the whole token sequence to be
\* consumed: for a complete expression followed by tokens that cannot
\* continue it ("1 2", "1 )", ...) it returns Ok with the tree of the leading
\* expression alone and the cursor at the first trailing token, which is
\* before the Eof token; no parse error is returned.
C14_TrailingTokensIgnored ==
    \A lead \in Leads : \A trail \in Trails :
        (AfterParse /\ source = lead \o <<" ">> \o trail) =>
            /\ parsed.tag = "Ok"
            /\ parsed.expr = LeadTree(lead)
            /\ parsed.current = LeadTokens(lead)
            /\ parsed.current < Len(tokens) - 1
            /\ ~parser_is_at_end(parsed.current)

\* "1 )" has been parsed, and evaluated as interpret() does after an Ok.
C14_Witness ==
    /\ source = <<"1", " ", ")">>
    /\ pc = "evaluated"
    /\ parsed.tag = "Ok"
    /\ parsed.current = 1
    /\ tokens[2].token_type = "RightParen"
    /\ result = Value(NumberValue(Fin(0, 1, 1)))

====
